---- MODULE Spec2Model ----
(***************************************************************************)
(* A model of quaint's query AST (Delete, Query), of the MySQL connector   *)
(* (sessions, with_connection / with_transaction, row decoding) and of the *)
(* MySQL visitor's lowering of a Delete into (sql, params).                *)
(*                                                                         *)
(* SQL text is a sequence of tokens; the string the program builds is the  *)
(* tokens joined by single spaces.  A 64-bit integer is written            *)
(* k * 2^63 + r with 0 <= r < 2^63 as the record [k, r]: k is 0 or 1 for a *)
(* u64 and -1 or 0 for an i64, and two such numbers are equal exactly when *)
(* their records are.                                                      *)
(***************************************************************************)
EXTENDS Integers, Sequences, FiniteSets

\* ------------------------------------------------------------------ bounds

\* Largest number of nodes of a condition tree passed to so_that.
MaxNodes == 3
\* Largest number of so_that calls on one Delete.
MaxSoThat == 2
\* Largest number of rows the driver returns for one statement.
MaxRows == 2

\* ------------------------------------------------------------------ values

None == [some |-> FALSE]
Some(x) == [some |-> TRUE, v |-> x]

\* ParameterizedValue, the library's value model.
PvNull == [tag |-> "Null"]
PvText(bytes) == [tag |-> "Text", text |-> bytes]
PvInteger(i) == [tag |-> "Integer", int |-> i]
PvReal(f) == [tag |-> "Real", real |-> f]
PvBoolean(b) == [tag |-> "Boolean", bool |-> b]
PvDateTime(dt) == [tag |-> "DateTime", datetime |-> dt]

\* The values bound in the conditions of the model's queries.
BoundValues == {PvBoolean(FALSE), PvInteger([k |-> 0, r |-> 1])}

\* ------------------------------------------------------------------ AST

Tables == {"users", "posts"}
Columns == {"bar", "baz"}
RawTexts == {"SELECT 1"}

\* ConditionTree: a comparison leaf, or NOT / AND / OR over subtrees.
Leaf(c, v) == [op |-> "leaf", col |-> c, val |-> v]
NotNode(e) == [op |-> "not", e |-> e]
BinNode(o, l, r) == [op |-> o, l |-> l, r |-> r]

Leaves == {Leaf(c, v) : c \in Columns, v \in BoundValues}

TreesOfSize[n \in 1..MaxNodes] ==
    IF n = 1 THEN Leaves
    ELSE {NotNode(e) : e \in TreesOfSize[n - 1]}
         \cup UNION {{BinNode(o, l, r) : o \in {"and", "or"},
                                         l \in TreesOfSize[i],
                                         r \in TreesOfSize[n - 1 - i]}
                     : i \in 1..(n - 2)}

\* The condition trees so_that is called with.
CondTrees == UNION {TreesOfSize[n] : n \in 1..MaxNodes}

\* Delete::from_table, as it should not be: it attaches a condition.
from_table_always_true(t) ==
    [table |-> t, conditions |-> Some(Leaf("bar", PvBoolean(FALSE)))]

\* Delete::from_table
from_table(t) == [table |-> t, conditions |-> None]

\* Delete::so_that, as it should not be: a second call keeps the first
\* call's conditions and ANDs the new ones to them.
so_that_and(self, conditions) ==
    [self EXCEPT !.conditions =
        IF self.conditions.some
        THEN Some(BinNode("and", self.conditions.v, conditions))
        ELSE Some(conditions)]

\* Delete::so_that, as it should not be: the conditions are not stored.
so_that_dropped(self, conditions) == self

\* Delete::so_that
so_that(self, conditions) == [self EXCEPT !.conditions = Some(conditions)]

\* From<Delete> for Query
QueryFromDelete(delete) == [kind |-> "Delete", delete |-> delete]

\* From<T: ToString> for Query
QueryFromString(t) == [kind |-> "Raw", text |-> t]

\* Query::is_select
is_select(q) == IF q.kind = "Select" THEN TRUE ELSE FALSE

\* Query::is_insert
is_insert(q) == IF q.kind = "Insert" THEN TRUE ELSE FALSE

\* Query::is_update
is_update(q) == IF q.kind = "Update" THEN TRUE ELSE FALSE

\* Query::is_delete, as it should not be: it also answers for an Update.
is_delete_or_update(q) == IF q.kind \in {"Delete", "Update"} THEN TRUE ELSE FALSE

\* Query::is_delete
is_delete(q) == IF q.kind = "Delete" THEN TRUE ELSE FALSE

\* Query::is_union_all
is_union_all(q) == IF q.kind = "UnionAll" THEN TRUE ELSE FALSE

\* The answers of the five predicates for q, in the order of the source.
Predicates(q) ==
    <<is_select(q), is_insert(q), is_update(q), is_delete(q), is_union_all(q)>>

\* ------------------------------------------------------------------ visitor

\* Quoting of an identifier in the MySQL dialect; the token BACKTICK stands
\* for the backtick character.
Quote(name) == <<"BACKTICK", name, "BACKTICK">>

\* The visitor's traversal of a condition tree: acc is the output so far;
\* a value is appended to params when its placeholder is written.
RECURSIVE Visit(_, _)
Visit(tree, acc) ==
    CASE tree.op = "leaf" ->
            [sql |-> acc.sql \o Quote(tree.col) \o <<"=", "?">>,
             params |-> Append(acc.params, tree.val)]
      [] tree.op = "not" ->
            LET a == Visit(tree.e, [acc EXCEPT !.sql = @ \o <<"(", "NOT">>])
            IN  [a EXCEPT !.sql = @ \o <<")">>]
      [] OTHER ->
            LET a == Visit(tree.l, [acc EXCEPT !.sql = @ \o <<"(">>])
                b == Visit(tree.r,
                           [a EXCEPT !.sql =
                               @ \o <<IF tree.op = "and" THEN "AND" ELSE "OR">>])
            IN  [b EXCEPT !.sql = @ \o <<")">>]

\* visitor::Mysql::build for the statements the model lowers.
Build(q) ==
    CASE q.kind = "Delete" ->
            LET head == [sql |-> <<"DELETE FROM">> \o Quote(q.delete.table),
                         params |-> <<>>]
            IN  IF q.delete.conditions.some
                THEN Visit(q.delete.conditions.v,
                           [head EXCEPT !.sql = @ \o <<"WHERE">>])
                ELSE head
      [] q.kind = "Raw" -> [sql |-> <<q.text>>, params |-> <<>>]

\* The statement kinds the model's sessions are handed.
Buildable(q) == q.kind \in {"Delete", "Raw"}

\* ------------------------------------------------------------------ results

Ok(v) == [ok |-> TRUE, v |-> v]
Err(e) == [ok |-> FALSE, e |-> e]

\* From<my::error::Error> for Error
FromMyError(e) == [variant |-> "QueryError", cause |-> e]

\* From<FromUtf8Error> for Error
FromUtf8Error(e) == [variant |-> "QueryError", cause |-> e]

\* The error pool.get() gives, converted by the ? of its caller.
PoolError == [variant |-> "ConnectionError", cause |-> "r2d2"]

\* ------------------------------------------------------------------ native values

\* my::Value, the driver's value model.
MyNull == [tag |-> "NULL"]
MyBytes(b) == [tag |-> "Bytes", bytes |-> b]
MyInt(i) == [tag |-> "Int", int |-> i]
MyUInt(u) == [tag |-> "UInt", uint |-> u]
MyFloat(f) == [tag |-> "Float", float |-> f]
MyDate(y, mo, d, h, mi, s, us) ==
    [tag |-> "Date", date |-> [year |-> y, month |-> mo, day |-> d,
                            hour |-> h, min |-> mi, sec |-> s, micros |-> us]]
MyTime(neg, d, h, mi, s, us) ==
    [tag |-> "Time", time |-> [is_neg |-> neg, days |-> d, hours |-> h,
                            minutes |-> mi, seconds |-> s, micros |-> us]]

\* A continuation byte of UTF-8.
Cont(b) == b \in 128..191

\* String::from_utf8 accepts exactly the well-formed UTF-8 byte sequences.
RECURSIVE ValidUtf8(_)
ValidUtf8(b) ==
    IF b = <<>> THEN TRUE
    ELSE LET n == Len(b)
             rest(k) == SubSeq(b, k + 1, n)
         IN  CASE b[1] <= 127 -> ValidUtf8(rest(1))
               [] b[1] \in 194..223 ->
                    n >= 2 /\ Cont(b[2]) /\ ValidUtf8(rest(2))
               [] b[1] = 224 ->
                    n >= 3 /\ b[2] \in 160..191 /\ Cont(b[3]) /\ ValidUtf8(rest(3))
               [] b[1] \in (225..236) \cup (238..239) ->
                    n >= 3 /\ Cont(b[2]) /\ Cont(b[3]) /\ ValidUtf8(rest(3))
               [] b[1] = 237 ->
                    n >= 3 /\ b[2] \in 128..159 /\ Cont(b[3]) /\ ValidUtf8(rest(3))
               [] b[1] = 240 ->
                    n >= 4 /\ b[2] \in 144..191 /\ Cont(b[3]) /\ Cont(b[4])
                    /\ ValidUtf8(rest(4))
               [] b[1] \in 241..243 ->
                    n >= 4 /\ Cont(b[2]) /\ Cont(b[3]) /\ Cont(b[4])
                    /\ ValidUtf8(rest(4))
               [] b[1] = 244 ->
                    n >= 4 /\ b[2] \in 128..143 /\ Cont(b[3]) /\ Cont(b[4])
                    /\ ValidUtf8(rest(4))
               [] OTHER -> FALSE

\* Whether year y is a leap year of the proleptic Gregorian calendar.
IsLeap(y) == (y % 4 = 0 /\ y % 100 # 0) \/ y % 400 = 0

\* The number of days of month mo of year y.
DaysIn(y, mo) ==
    CASE mo \in {4, 6, 9, 11} -> 30
      [] mo = 2 -> IF IsLeap(y) THEN 29 ELSE 28
      [] OTHER -> 31

\* NaiveDate::from_ymd returns for exactly these dates, and panics otherwise.
ValidYmd(y, mo, d) == mo \in 1..12 /\ d \in 1..DaysIn(y, mo)

\* NaiveDate::and_hms returns for exactly these times, and panics otherwise.
ValidHms(h, mi, s) == h < 24 /\ mi < 60 /\ s < 60

\* The cast u64 as i64: the same 64 bits, read as two's complement.
AsI64(u) == [k |-> -u.k, r |-> u.r]

\* The outcome of decoding one value: a value, an error, or a panic.
Decoded(v) == [st |-> "ok", v |-> v]
Failed(e) == [st |-> "err", e |-> e]
Panicked == [st |-> "panic"]

\* to_result_row::convert, the arm for my::Value::Date.
ConvertDate(d) ==
    IF ValidYmd(d.year, d.month, d.day) /\ ValidHms(d.hour, d.min, d.sec)
    THEN Decoded(PvDateTime([year |-> d.year, month |-> d.month, day |-> d.day,
                             hour |-> d.hour, min |-> d.min, sec |-> d.sec]))
    ELSE Panicked

\* to_result_row::convert, the arm for my::Value::Time.  The sum of the five
\* durations is at most 2^32 days, far below chrono's largest Duration, and
\* is never negative, so neither unwrap can fail.  The f64 is written as
\* whole seconds and microseconds.
ConvertTime(t) ==
    LET total == t.days * 86400 + t.hours * 3600 + t.minutes * 60 + t.seconds
                 + (t.micros \div 1000000)
    IN  Decoded(PvReal([neg |-> t.is_neg, secs |-> total,
                        micros |-> t.micros % 1000000]))

\* to_result_row::convert
convert(raw_value) ==
    CASE raw_value.tag = "NULL" -> Decoded(PvNull)
      [] raw_value.tag = "Bytes" ->
            IF ValidUtf8(raw_value.bytes) THEN Decoded(PvText(raw_value.bytes))
            ELSE Failed(FromUtf8Error("FromUtf8Error"))
      [] raw_value.tag = "Int" -> Decoded(PvInteger(raw_value.int))
      [] raw_value.tag = "UInt" -> Decoded(PvInteger(AsI64(raw_value.uint)))
      [] raw_value.tag = "Float" -> Decoded(PvReal(raw_value.float))
      [] raw_value.tag = "Date" -> ConvertDate(raw_value.date)
      [] raw_value.tag = "Time" -> ConvertTime(raw_value.time)

\* The loop of to_result_row from index i on: values holds the values
\* pushed so far; the first error or panic ends it.
RECURSIVE ConvertFrom(_, _, _)
ConvertFrom(row, i, values) ==
    IF i > Len(row) THEN Decoded(values)
    ELSE LET c == convert(row[i])
         IN  IF c.st = "ok" THEN ConvertFrom(row, i + 1, Append(values, c.v))
             ELSE c

\* ToResultRow for my::Row
to_result_row(row) == ConvertFrom(row, 1, <<>>)

\* ToColumnNames for my::Stmt: columns is what columns_ref() returns.
to_column_names(columns) == IF columns.some THEN columns.v ELSE <<>>

\* From<ParameterizedValue> for my::Value, for the values the model binds.
ToMyValue(x) ==
    CASE x.tag = "Null" -> MyNull
      [] x.tag = "Integer" -> MyInt(x.int)
      [] x.tag = "Boolean" -> MyInt([k |-> 0, r |-> IF x.bool THEN 1 ELSE 0])
      [] x.tag = "Text" -> MyBytes(x.text)
      [] x.tag = "Real" -> MyFloat(x.real)

\* my::params::Params
ParamsEmpty == [kind |-> "Empty", vals |-> <<>>]
ParamsPositional(vals) == [kind |-> "Positional", vals |-> vals]

\* conv_params, as it should not be: the comparison is off by one, and one
\* parameter is sent as no parameters.
conv_params_off_by_one(params) ==
    IF Len(params) > 1
    THEN ParamsPositional([i \in 1..Len(params) |-> ToMyValue(params[i])])
    ELSE ParamsEmpty

\* conv_params
conv_params(params) ==
    IF Len(params) > 0
    THEN ParamsPositional([i \in 1..Len(params) |-> ToMyValue(params[i])])
    ELSE ParamsEmpty

\* ------------------------------------------------------------------ driver

\* What columns_ref() of a prepared statement may return.
ColumnChoices == {None, Some(<<"id">>), Some(<<"id", "val">>)}
ColumnChoicesSmall == {None, Some(<<"val">>)}

I64One == [k |-> 0, r |-> 1]
\* 2^63 + 1 as a u64.
U64Big == [k |-> 1, r |-> 1]

\* "Joe", and a byte no UTF-8 text holds.
BytesJoe == <<74, 111, 101>>
BytesBad == <<74, 255>>

\* The native values the driver returns in each column.
CellPool ==
    [id |-> {MyInt(I64One), MyUInt(U64Big), MyNull},
     val |-> {MyBytes(BytesJoe), MyBytes(BytesBad),
              MyFloat([neg |-> FALSE, secs |-> 20000, micros |-> 0]),
              MyDate(2019, 6, 15, 12, 30, 45, 0), MyDate(0, 0, 0, 0, 0, 0, 0),
              MyTime(TRUE, 1, 2, 3, 4, 500000)}]
CellPoolSmall ==
    [val |-> {MyBytes(BytesJoe), MyBytes(BytesBad), MyDate(0, 0, 0, 0, 0, 0, 0)}]

\* The rows the driver may return for a statement with these column names:
\* one value per column.
RowsOf(names, pool) ==
    {row \in [1..Len(names) -> UNION {pool[c] : c \in DOMAIN pool}] :
        \A i \in 1..Len(names) : row[i] \in pool[names[i]]}

\* The (sql, params) pairs query_raw is called with directly.
RawCalls ==
    {[sql |-> <<"SELECT 1">>, params |-> <<>>],
     [sql |-> <<"SELECT", "?">>, params |-> <<PvInteger(I64One)>>],
     [sql |-> <<"SELECT", "?", ",", "?">>,
      params |-> <<PvInteger(I64One), PvBoolean(FALSE)>>]}

\* The values last_insert_id() may return.
InsertIds == {0, 7}

\* ------------------------------------------------------------------ state

VARIABLES
    pc,          \* where the caller is
    delete,      \* the Delete being built
    argTable,    \* the argument of from_table
    lastCond,    \* the argument of the last so_that call
    nSoThat,     \* the number of so_that calls
    query,       \* the Query built
    mode,        \* "conn" inside with_connection, "tx" inside with_transaction
    op,          \* the session method the closure calls
    call,        \* the (sql, params) query_raw was entered with
    stmt,        \* the statement prepared: its text, the parameters bound
    driverRows,  \* the rows the driver returned so far
    result,      \* result.rows of query_raw
    res,         \* what the closure returned
    ret,         \* what with_connection / with_transaction returned
    tx           \* the transaction: what was called on it

vars == <<pc, delete, argTable, lastCond, nSoThat, query, mode, op, call,
          stmt, driverRows, result, res, ret, tx>>

astVars == <<delete, argTable, lastCond, nSoThat, query>>
sessionVars == <<call, stmt, driverRows, result>>

NoTx == [started |-> FALSE, commit_called |-> FALSE, committed |-> FALSE,
         rolled_back |-> FALSE]

Init ==
    /\ pc = "new"
    /\ delete = None
    /\ argTable = None
    /\ lastCond = None
    /\ nSoThat = 0
    /\ query = None
    /\ mode = "none"
    /\ op = "none"
    /\ call = None
    /\ stmt = None
    /\ driverRows = <<>>
    /\ result = <<>>
    /\ res = None
    /\ ret = None
    /\ tx = NoTx

\* ------------------------------------------------------------------ AST actions

\* Delete::from_table(t)
FromTable(t) ==
    /\ pc = "new"
    /\ pc' = "delete"
    /\ delete' = Some(from_table(t))
    /\ argTable' = Some(t)
    /\ UNCHANGED <<lastCond, nSoThat, query, mode, op, res, ret, tx>>
    /\ UNCHANGED sessionVars

\* delete.so_that(c)
SoThat(c) ==
    /\ pc = "delete"
    /\ nSoThat < MaxSoThat
    /\ delete' = Some(so_that(delete.v, c))
    /\ lastCond' = Some(c)
    /\ nSoThat' = nSoThat + 1
    /\ UNCHANGED <<pc, argTable, query, mode, op, res, ret, tx>>
    /\ UNCHANGED sessionVars

\* Query::from(delete): the Delete is moved into the Query.
IntoQuery ==
    /\ pc = "delete"
    /\ pc' = "query"
    /\ query' = Some(QueryFromDelete(delete.v))
    /\ delete' = None
    /\ UNCHANGED <<argTable, lastCond, nSoThat, mode, op, res, ret, tx>>
    /\ UNCHANGED sessionVars

\* A Query of another statement kind; the statement itself is not modelled.
OtherQuery(kind) ==
    /\ pc = "new"
    /\ pc' = "query"
    /\ query' = Some([kind |-> kind])
    /\ UNCHANGED <<delete, argTable, lastCond, nSoThat, mode, op, res,
                   ret, tx>>
    /\ UNCHANGED sessionVars

\* Query::from(text)
RawQuery(text) ==
    /\ pc = "new"
    /\ pc' = "query"
    /\ query' = Some(QueryFromString(text))
    /\ UNCHANGED <<delete, argTable, lastCond, nSoThat, mode, op, res,
                   ret, tx>>
    /\ UNCHANGED sessionVars

\* ------------------------------------------------------------------ sessions

Ops == {"execute", "query", "query_raw"}

\* The statement after prepare(sql) and stmt.execute(conv_params(params)).
Executed(sql, params, columns) ==
    [sql |-> sql, names |-> to_column_names(columns),
     bound |-> conv_params(params)]

\* Connection::execute of my::Transaction and of PooledConnection: out is
\* how far the driver lets the call get, id what last_insert_id() returns.
execute(session, q, out, id) ==
    LET b == Build(q)
    IN  CASE out = "prepare_err" ->
                [stmt |-> None, res |-> Err(FromMyError("prepare"))]
          [] out = "execute_err" ->
                [stmt |-> Some(Executed(b.sql, b.params, None)),
                 res |-> Err(FromMyError("execute"))]
          [] OTHER ->
                [stmt |-> Some(Executed(b.sql, b.params, None)),
                 res |-> IF session = "tx" THEN Ok(None)
                         ELSE Ok(Some([variant |-> "Int", v |-> id]))]

\* The closure calls execute(query).
CallExecute(out, id) ==
    /\ pc = "closure"
    /\ op = "execute"
    /\ LET r == execute(mode, query.v, out, id)
       IN  /\ stmt' = r.stmt
           /\ res' = Some(r.res)
    /\ pc' = "closed"
    /\ UNCHANGED <<mode, op, call, driverRows, result, ret, tx>>
    /\ UNCHANGED astVars

\* Connection::query_raw up to the loop over the rows: prepare, the column
\* names, stmt.execute; the same text in both implementations.
QueryRawEnter(sql, params, out, columns) ==
    /\ call' = Some([sql |-> sql, params |-> params])
    /\ result' = <<>>
    /\ driverRows' = <<>>
    /\ CASE out = "prepare_err" ->
                /\ stmt' = None
                /\ res' = Some(Err(FromMyError("prepare")))
                /\ pc' = "closed"
         [] out = "execute_err" ->
                /\ stmt' = Some(Executed(sql, params, columns))
                /\ res' = Some(Err(FromMyError("execute")))
                /\ pc' = "closed"
         [] OTHER ->
                /\ stmt' = Some(Executed(sql, params, columns))
                /\ res' = None
                /\ pc' = "rows"

\* The closure calls query(query): build, then query_raw.
CallQuery(out, columns) ==
    /\ pc = "closure"
    /\ op = "query"
    /\ LET b == Build(query.v)
       IN  QueryRawEnter(b.sql, b.params, out, columns)
    /\ UNCHANGED <<mode, op, ret, tx>>
    /\ UNCHANGED astVars

\* The closure calls query_raw(rc.sql, rc.params).
CallQueryRaw(rc, out, columns) ==
    /\ pc = "closure"
    /\ op = "query_raw"
    /\ QueryRawEnter(rc.sql, rc.params, out, columns)
    /\ UNCHANGED <<mode, op, ret, tx>>
    /\ UNCHANGED astVars

\* The loop of query_raw: the driver fails to read the next row (row?).
RowError ==
    /\ pc = "rows"
    /\ stmt.v.names # <<>>
    /\ Len(driverRows) < MaxRows
    /\ res' = Some(Err(FromMyError("row")))
    /\ pc' = "closed"
    /\ UNCHANGED <<mode, op, call, stmt, driverRows, result, ret, tx>>
    /\ UNCHANGED astVars

\* The loop of query_raw: the driver returns the row raw, and
\* result.rows.push(row?.to_result_row()?).
RowNext(raw) ==
    /\ pc = "rows"
    /\ stmt.v.names # <<>>
    /\ Len(driverRows) < MaxRows
    /\ driverRows' = Append(driverRows, raw)
    /\ LET d == to_result_row(raw)
       IN  CASE d.st = "ok" ->
                    /\ result' = Append(result, [values |-> d.v])
                    /\ UNCHANGED <<pc, res>>
             [] d.st = "err" ->
                    /\ res' = Some(Err(d.e))
                    /\ pc' = "closed"
                    /\ UNCHANGED result
             [] OTHER ->
                    /\ pc' = "panic"
                    /\ UNCHANGED <<res, result>>
    /\ UNCHANGED <<mode, op, call, stmt, ret, tx>>
    /\ UNCHANGED astVars

\* The loop of query_raw ends: Ok(result).
RowsEnd ==
    /\ pc = "rows"
    /\ res' = Some(Ok([names |-> stmt.v.names, rows |-> result]))
    /\ pc' = "closed"
    /\ UNCHANGED <<mode, op, call, stmt, driverRows, result, ret, tx>>
    /\ UNCHANGED astVars

\* The closure returns an error of its own.
UserError == [variant |-> "User", cause |-> "closure"]

ClosureFails ==
    /\ pc = "closure"
    /\ res' = Some(Err(UserError))
    /\ pc' = "closed"
    /\ UNCHANGED <<mode, op, ret, tx>>
    /\ UNCHANGED sessionVars
    /\ UNCHANGED astVars

\* ------------------------------------------------------------------ connector

\* What the caller may do with the connector: run a closure that calls
\* execute or query with the Query built, or query_raw with no Query.
CanRun(o) ==
    \/ pc = "query" /\ o # "query_raw" /\ Buildable(query.v)
    \/ pc = "new" /\ o = "query_raw"

\* Connectional for Mysql::with_connection up to the closure; got is
\* whether pool.get() succeeds.
WithConnectionBegin(o, got) ==
    /\ CanRun(o)
    /\ mode' = "conn"
    /\ IF got
       THEN /\ pc' = "closure"
            /\ op' = o
            /\ UNCHANGED ret
       ELSE /\ pc' = "done"
            /\ ret' = Some(Err(PoolError))
            /\ UNCHANGED op
    /\ UNCHANGED <<res, tx>>
    /\ UNCHANGED sessionVars
    /\ UNCHANGED astVars

\* Connectional for Mysql::with_connection from the closure's return on.
WithConnectionEnd ==
    /\ pc = "closed"
    /\ mode = "conn"
    /\ ret' = res
    /\ pc' = "done"
    /\ UNCHANGED <<mode, op, res, tx>>
    /\ UNCHANGED sessionVars
    /\ UNCHANGED astVars

\* Transactional for Mysql::with_transaction up to the closure; out is
\* which of pool.get() and start_transaction fails, if any.
WithTransactionBegin(o, out) ==
    /\ CanRun(o)
    /\ mode' = "tx"
    /\ CASE out = "pool_err" ->
                /\ pc' = "done"
                /\ ret' = Some(Err(PoolError))
                /\ UNCHANGED <<op, tx>>
         [] out = "start_err" ->
                /\ pc' = "done"
                /\ ret' = Some(Err(FromMyError("start_transaction")))
                /\ UNCHANGED <<op, tx>>
         [] OTHER ->
                /\ pc' = "closure"
                /\ op' = o
                /\ tx' = [tx EXCEPT !.started = TRUE]
                /\ UNCHANGED ret
    /\ UNCHANGED res
    /\ UNCHANGED sessionVars
    /\ UNCHANGED astVars

\* my::Transaction is dropped: it sends ROLLBACK unless it was committed.
Dropped(t) == IF t.committed THEN t ELSE [t EXCEPT !.rolled_back = TRUE]

\* with_transaction from the closure's return on, as it should not be: the
\* error of commit is dropped.
with_transaction_end_ignoring(closure_result, t, commit_ok) ==
    IF closure_result.ok
    THEN [ret |-> closure_result,
          tx |-> Dropped([t EXCEPT !.commit_called = TRUE,
                                   !.committed = commit_ok])]
    ELSE [ret |-> closure_result, tx |-> Dropped(t)]

\* with_transaction from the closure's return on, as it should not be: it
\* commits whatever the closure returned.
with_transaction_end_always(closure_result, t, commit_ok) ==
    IF commit_ok
    THEN [ret |-> closure_result,
          tx |-> [t EXCEPT !.commit_called = TRUE, !.committed = TRUE]]
    ELSE [ret |-> Err(FromMyError("commit")),
          tx |-> Dropped([t EXCEPT !.commit_called = TRUE])]

\* with_transaction from the closure's return on: commit_ok is whether
\* COMMIT succeeds.  tx.commit()? returns early with the error of commit;
\* the transaction commit() consumed is dropped uncommitted.
with_transaction_end(closure_result, t, commit_ok) ==
    IF closure_result.ok
    THEN IF commit_ok
         THEN [ret |-> closure_result,
               tx |-> [t EXCEPT !.commit_called = TRUE, !.committed = TRUE]]
         ELSE [ret |-> Err(FromMyError("commit")),
               tx |-> Dropped([t EXCEPT !.commit_called = TRUE])]
    ELSE [ret |-> closure_result, tx |-> Dropped(t)]

\* Transactional for Mysql::with_transaction from the closure's return on.
WithTransactionEnd(commit_ok) ==
    /\ pc = "closed"
    /\ mode = "tx"
    /\ LET r == with_transaction_end(res.v, tx, commit_ok)
       IN  /\ ret' = Some(r.ret)
           /\ tx' = r.tx
    /\ pc' = "done"
    /\ UNCHANGED <<mode, op, res>>
    /\ UNCHANGED sessionVars
    /\ UNCHANGED astVars

\* A panic in the closure unwinds through with_connection or
\* with_transaction: nothing is returned, the transaction is dropped.
Unwind ==
    /\ pc = "panic"
    /\ pc' = "aborted"
    /\ tx' = IF mode = "tx" THEN Dropped(tx) ELSE tx
    /\ UNCHANGED <<mode, op, res, ret>>
    /\ UNCHANGED sessionVars
    /\ UNCHANGED astVars

\* ------------------------------------------------------------------ specifications

OpaqueKinds == {"Select", "Insert", "Update", "UnionAll"}

\* The program, with its inputs drawn from the given sets: the condition
\* trees, the direct query_raw calls, the columns and values of the driver.
NextOver(trees, rawCalls, columnChoices, pool) ==
    \/ \E t \in Tables : FromTable(t)
    \/ \E c \in trees : SoThat(c)
    \/ IntoQuery
    \/ \E k \in OpaqueKinds : OtherQuery(k)
    \/ \E t \in RawTexts : RawQuery(t)
    \/ \E o \in Ops, got \in BOOLEAN : WithConnectionBegin(o, got)
    \/ \E o \in Ops, out \in {"pool_err", "start_err", "ok"} :
            WithTransactionBegin(o, out)
    \/ \E out \in {"prepare_err", "execute_err", "ok"}, id \in InsertIds :
            CallExecute(out, id)
    \/ \E out \in {"prepare_err", "execute_err", "ok"}, cols \in columnChoices :
            CallQuery(out, cols)
    \/ \E rc \in rawCalls, out \in {"prepare_err", "execute_err", "ok"},
          cols \in columnChoices :
            CallQueryRaw(rc, out, cols)
    \/ ClosureFails
    \/ RowError
    \/ \E raw \in (IF pc = "rows" THEN RowsOf(stmt.v.names, pool) ELSE {}) :
            RowNext(raw)
    \/ RowsEnd
    \/ WithConnectionEnd
    \/ \E c \in BOOLEAN : WithTransactionEnd(c)
    \/ Unwind

\* Every condition tree of up to MaxNodes nodes; a driver of one column.
Next == NextOver(CondTrees, RawCalls, ColumnChoicesSmall, CellPoolSmall)
Spec == Init /\ [][Next]_vars

\* The condition of the documentation; a driver of up to two columns and every kind of
\* native value.
NextRows == NextOver({Leaf("bar", PvBoolean(FALSE))}, RawCalls, ColumnChoices, CellPool)
SpecRows == Init /\ [][NextRows]_vars

\* ------------------------------------------------------------------ claims

\* The comparison leaves of a condition tree, from left to right.
RECURSIVE LeafSeq(_)
LeafSeq(tree) ==
    CASE tree.op = "leaf" -> <<tree>>
      [] tree.op = "not" -> LeafSeq(tree.e)
      [] OTHER -> LeafSeq(tree.l) \o LeafSeq(tree.r)

\* The leaves of the conditions the caller attached: those of the last
\* so_that argument, none when so_that was never called.
AttachedLeaves == IF lastCond.some THEN LeafSeq(lastCond.v) ELSE <<>>

\* The positions of the placeholders of an SQL text.
Placeholders(sql) == {i \in 1..Len(sql) : sql[i] = "?"}

\* The position of the n-th placeholder.
NthPlaceholder(sql, n) ==
    CHOOSE i \in Placeholders(sql) :
        Cardinality({j \in Placeholders(sql) : j <= i}) = n

\* (sql, params) holds one placeholder and one parameter per leaf, the n-th
\* placeholder closing the comparison of the n-th leaf's column and the
\* n-th parameter being the n-th leaf's value.
Aligned(sql, params, leaves) ==
    /\ Cardinality(Placeholders(sql)) = Len(leaves)
    /\ Len(params) = Len(leaves)
    /\ \A n \in 1..Len(leaves) :
        /\ params[n] = leaves[n].val
        /\ LET i == NthPlaceholder(sql, n)
           IN  i > 4 /\ SubSeq(sql, i - 4, i - 1) = Quote(leaves[n].col) \o <<"=">>

\* The query the closure handed to execute or query was a Delete.
DeleteDelivered ==
    /\ op \in {"execute", "query"}
    /\ stmt.some
    /\ query.v.kind = "Delete"

\* C1: a Delete built by from_table(t) and so_that(c), c holding k bound
\* values, is lowered by build to an SQL text of exactly k placeholders and
\* to k parameters, the n-th placeholder standing for the n-th value of c
\* from left to right, equal values not merged; the statement the session
\* prepares and the parameters it binds are k as well.
C1_PlaceholdersMatchParams ==
    /\ (query.some /\ query.v.kind = "Delete") =>
            LET b == Build(query.v)
            IN  Aligned(b.sql, b.params, AttachedLeaves)
    /\ DeleteDelivered =>
            /\ Cardinality(Placeholders(stmt.v.sql)) = Len(AttachedLeaves)
            /\ Len(stmt.v.bound.vals) = Len(AttachedLeaves)

\* C1's case: two leaves binding the same value under an AND, delivered.
C1_Witness ==
    /\ DeleteDelivered
    /\ lastCond = Some(BinNode("and", Leaf("bar", PvBoolean(FALSE)),
                                      Leaf("baz", PvBoolean(FALSE))))
    /\ stmt.v.sql = <<"DELETE FROM", "BACKTICK", "users", "BACKTICK", "WHERE",
                      "(", "BACKTICK", "bar", "BACKTICK", "=", "?", "AND",
                      "BACKTICK", "baz", "BACKTICK", "=", "?", ")">>
    /\ Len(stmt.v.bound.vals) = 2

\* The parameters conv_params should hand the driver for params.
Delivered(params) ==
    IF params = <<>> THEN ParamsEmpty
    ELSE ParamsPositional([i \in 1..Len(params) |-> ToMyValue(params[i])])

\* The result set query_raw should return for the rows the driver returned.
DecodedRows ==
    [i \in 1..Len(driverRows) |->
        [values |-> [j \in 1..Len(driverRows[i]) |-> convert(driverRows[i][j]).v]]]

\* C3: in both sessions execute(q) and query(q) prepare the SQL text of
\* build(q) and bind the parameters of build(q), in its order and number,
\* none for the empty sequence; query(q) enters query_raw with the pair of
\* build(q), and returns what query_raw returns for the driver's rows.
C3_DeliveredUnmodified ==
    /\ (op \in {"execute", "query"} /\ stmt.some) =>
            LET b == Build(query.v)
            IN  /\ stmt.v.sql = b.sql
                /\ stmt.v.bound = Delivered(b.params)
    /\ (op = "query" /\ call.some) =>
            LET b == Build(query.v)
            IN  call.v = [sql |-> b.sql, params |-> b.params]
    /\ (op \in {"query", "query_raw"} /\ stmt.some) =>
            /\ stmt.v.sql = call.v.sql
            /\ stmt.v.bound = Delivered(call.v.params)
    /\ (op \in {"query", "query_raw"} /\ res.some /\ res.v.ok) =>
            res.v.v = [names |-> stmt.v.names, rows |-> DecodedRows]

\* C3's case: query(q) in a transaction, q binding two values, returned rows.
C3_Witness ==
    /\ pc = "closed"
    /\ mode = "tx"
    /\ op = "query"
    /\ res.v.ok
    /\ Len(stmt.v.bound.vals) = 2
    /\ Len(res.v.v.rows) = 1

\* Exactly one of the answers is TRUE.
ExactlyOne(answers) == Cardinality({i \in 1..Len(answers) : answers[i]}) = 1

\* The place, in Predicates, of the predicate of a statement kind.
PredicateOf(kind) ==
    CASE kind = "Select" -> 1
      [] kind = "Insert" -> 2
      [] kind = "Update" -> 3
      [] kind = "Delete" -> 4
      [] kind = "UnionAll" -> 5

\* C4 as claimed: for every Query, of whatever statement kind, exactly one
\* of the five predicates is true.
C4_Original == query.some => ExactlyOne(Predicates(query.v))

\* C4 as amended: for a Query of variant Select, Insert, Update, Delete or
\* UnionAll exactly one of the five predicates is true, the one of its
\* variant; for a Query::Raw none of them is.
C4_ExactlyOnePredicate ==
    query.some =>
        IF query.v.kind = "Raw"
        THEN \A i \in 1..5 : ~Predicates(query.v)[i]
        ELSE /\ ExactlyOne(Predicates(query.v))
             /\ Predicates(query.v)[PredicateOf(query.v.kind)]

\* C4's case: the predicates of a Delete and of an Update.
C4_Witness ==
    /\ query.some
    /\ query.v.kind = "Update"
    /\ Predicates(query.v) = <<FALSE, FALSE, TRUE, FALSE, FALSE>>

\* The SQL text of a Delete of table t with no conditions.
BareDelete(t) == <<"DELETE FROM", "BACKTICK", t, "BACKTICK">>

\* C5: a Delete on which so_that was never called has conditions None and
\* is lowered to DELETE FROM and the quoted table, with no parameters, and
\* is delivered so; a Delete's SQL text holds WHERE exactly when its
\* conditions are not None.
C5_NoConditionsNoWhere ==
    /\ (delete.some /\ nSoThat = 0) =>
            /\ delete.v.conditions = None
            /\ Build(QueryFromDelete(delete.v)) =
                    [sql |-> BareDelete(argTable.v), params |-> <<>>]
    /\ (query.some /\ query.v.kind = "Delete") =>
            /\ (query.v.delete.conditions = None) <=>
                    (\A i \in 1..Len(Build(query.v).sql) :
                        Build(query.v).sql[i] # "WHERE")
            /\ nSoThat = 0 =>
                    Build(query.v) = [sql |-> BareDelete(argTable.v), params |-> <<>>]
    /\ (DeleteDelivered /\ nSoThat = 0) =>
            /\ stmt.v.sql = BareDelete(argTable.v)
            /\ stmt.v.bound = ParamsEmpty

\* C5's case: a Delete with no conditions was executed.
C5_Witness ==
    /\ DeleteDelivered
    /\ op = "execute"
    /\ nSoThat = 0
    /\ stmt.v.sql = BareDelete("users")

\* C10: after from_table(t) and one or more so_that calls the Delete's table
\* is t and its conditions are Some of the last so_that argument alone; the
\* Query made of it is Query::Delete of that table and those conditions.
C10_LastSoThatWins ==
    /\ (delete.some /\ nSoThat >= 1) =>
            delete.v = [table |-> argTable.v, conditions |-> Some(lastCond.v)]
    /\ (query.some /\ query.v.kind = "Delete" /\ nSoThat >= 1) =>
            query.v = [kind |-> "Delete",
                       delete |-> [table |-> argTable.v,
                                   conditions |-> Some(lastCond.v)]]

\* C10's case: so_that was called twice and the Delete made a Query.
C10_Witness ==
    /\ nSoThat = 2
    /\ query.some
    /\ query.v.kind = "Delete"
    /\ query.v.delete.table = "posts"
    /\ query.v.delete.conditions = Some(Leaf("baz", PvInteger(I64One)))

\* The closure ran inside with_transaction and with_transaction returned.
TxReturned == pc = "done" /\ mode = "tx" /\ res.some

\* C2 as claimed, with commit and rollback read as the calls made: commit
\* is called exactly when the closure returned Ok, the rollback is sent and
\* commit not called when it returned Err, and exactly one of the two is
\* done.
C2_AsCalls ==
    /\ tx.commit_called <=> res.v.ok
    /\ ~res.v.ok => (tx.rolled_back /\ ~tx.commit_called)
    /\ tx.commit_called # tx.rolled_back

\* C2 as claimed, with commit and rollback read as what became of the
\* transaction: it is committed exactly when the closure returned Ok, rolled
\* back and not committed when it returned Err, and exactly one of the two.
C2_AsOutcomes ==
    /\ tx.committed <=> res.v.ok
    /\ ~res.v.ok => (tx.rolled_back /\ ~tx.committed)
    /\ tx.committed # tx.rolled_back

\* C2 as claimed: whenever the closure ran and with_transaction returned,
\* the claim holds in one of its two readings.
C2_Original == TxReturned => (C2_AsCalls \/ C2_AsOutcomes)

\* C2 as amended: with_transaction calls commit exactly when the closure
\* returned Ok; when the closure returned Err the transaction is rolled
\* back and commit is never called; whenever the closure ran, the
\* transaction ends either committed or rolled back, never both and never
\* neither: committed when the closure returned Ok and COMMIT succeeded,
\* rolled back otherwise, which includes the closure that returned Ok
\* followed by a commit that failed, and the closure that panicked.
C2_CommitXorRollback ==
    /\ TxReturned =>
            /\ tx.commit_called <=> res.v.ok
            /\ ~res.v.ok => (tx.rolled_back /\ ~tx.committed)
            /\ tx.committed # tx.rolled_back
            /\ tx.committed <=> (res.v.ok /\ ret.v.ok)
    /\ (pc = "aborted" /\ mode = "tx") =>
            (tx.rolled_back /\ ~tx.commit_called /\ ~tx.committed)
    /\ pc \in {"closure", "rows", "closed", "panic"} =>
            (~tx.commit_called /\ ~tx.committed /\ ~tx.rolled_back)

\* C2's case: the closure's query returned rows and the commit succeeded.
C2_Witness ==
    /\ TxReturned
    /\ op = "query"
    /\ res.v.ok
    /\ Len(res.v.v.rows) = 2
    /\ tx.committed
    /\ ~tx.rolled_back

\* The errors with_transaction returns before it runs the closure.
BeginErrors == {PoolError, FromMyError("start_transaction")}

\* C8: with_transaction returns Ok(v) only when the transaction was
\* committed, and then the closure's Ok(v); when the closure returned Ok and
\* commit failed it returns the error of commit; when the closure returned
\* Err(e) it returns Err(e) and commit was never called; when pool.get() or
\* start_transaction failed it returns that error, and the closure never ran.
C8_ReturnFollowsCommit ==
    (pc = "done" /\ mode = "tx") =>
        /\ ret.v.ok => (tx.committed /\ res.some /\ ret = res)
        /\ (res.some /\ res.v.ok /\ ~tx.committed) =>
                (tx.commit_called /\ ret.v = Err(FromMyError("commit")))
        /\ (res.some /\ res.v.ok /\ tx.committed) => ret = res
        /\ (res.some /\ ~res.v.ok) => (ret = res /\ ~tx.commit_called)
        /\ ~res.some =>
                /\ ~ret.v.ok
                /\ ret.v.e \in BeginErrors
                /\ op = "none"
                /\ call = None
                /\ stmt = None
                /\ tx = NoTx

\* C8's case: the closure returned Ok and the commit failed.
C8_Witness ==
    /\ pc = "done"
    /\ mode = "tx"
    /\ res.some
    /\ res.v.ok
    /\ tx.commit_called
    /\ ~tx.committed
    /\ ret.v = Err(FromMyError("commit"))

\* A native value no Value can be made of.
Unconvertible(value) ==
    \/ value.tag = "Bytes" /\ ~ValidUtf8(value.bytes)
    \/ /\ value.tag = "Date"
       /\ ~(/\ ValidYmd(value.date.year, value.date.month, value.date.day)
            /\ ValidHms(value.date.hour, value.date.min, value.date.sec))

\* A row the driver returned holds a value no Value can be made of.
SomeRowUnconvertible ==
    \E i \in 1..Len(driverRows) :
        \E j \in 1..Len(driverRows[i]) : Unconvertible(driverRows[i][j])

\* query_raw returned Ok: the names are the statement's, the rows are the
\* driver's rows in its order, and each row holds the decoded value of each
\* column, in the order of the columns.
OkResultsAligned ==
    (op \in {"query", "query_raw"} /\ res.some /\ res.v.ok) =>
        /\ res.v.v.names = stmt.v.names
        /\ Len(res.v.v.rows) = Len(driverRows)
        /\ \A i \in 1..Len(driverRows) :
            /\ Len(res.v.v.rows[i].values) = Len(res.v.v.names)
            /\ \A j \in 1..Len(driverRows[i]) :
                convert(driverRows[i][j]) = Decoded(res.v.v.rows[i].values[j])

\* C6 as claimed: a result set query_raw returns holds the driver's rows in
\* order, one decoded value per column name in column order, and a row that
\* cannot be decoded makes query_raw return Err.
C6_Claim ==
    /\ OkResultsAligned
    /\ SomeRowUnconvertible => (res.some /\ ~res.v.ok)

\* C7 as claimed: whenever a value cannot be converted, to_result_row and
\* query_raw return Err and nothing panics.
C7_Claim ==
    SomeRowUnconvertible =>
        (pc \notin {"panic", "aborted"} /\ res.some /\ ~res.v.ok)

\* C9 as claimed: the Value decoded from UInt(u) is Integer(n) with n = u,
\* and n is not negative.
C9_Claim ==
    \A i \in 1..Len(result) :
        \A j \in 1..Len(driverRows[i]) :
            driverRows[i][j].tag = "UInt" =>
                /\ result[i].values[j].tag = "Integer"
                /\ result[i].values[j].int = driverRows[i][j].uint
                /\ result[i].values[j].int.k >= 0

====
